---- MODULE Spec2Model ----
(***************************************************************************)
(* Model of streamlit_app.py: a Streamlit script that validates the        *)
(* Sentinel Hub credentials, reads the sidebar widgets, builds a bounding  *)
(* box around the area of interest and, when the button is pressed,        *)
(* fetches one satellite image through get_sentinel_image().               *)
(*                                                                         *)
(* Streamlit re-runs main() from the top on every user interaction; one    *)
(* run of main() is a "render pass".  pc is the position inside the pass.  *)
(***************************************************************************)
EXTENDS Integers, Sequences, FiniteSets, TLC

(***************************************************************************)
(* Python values.  None and str are tagged so that they can be compared.   *)
(***************************************************************************)
None == <<"NoneType">>

Str(s) == <<"str", s>>

Bytes(b) == <<"bytes", b>>

\* Python truthiness of an Optional[str]: `not v` is true for None and "".
Truthy(v) == IF v = None THEN FALSE ELSE Len(v[2]) > 0

(***************************************************************************)
(* IEEE-754 binary64 arithmetic (round to nearest, ties to even), which is *)
(* what Python's float `+` and `-` compute.  A natural number is a         *)
(* sequence of 16-bit limbs, least significant limb first, without high    *)
(* zero limbs; a float is (-1)^sign * man * 2^exp with man either empty    *)
(* (zero) or exactly MantBits bits long.  All values used lie in the       *)
(* normal range, far from overflow and from subnormals.                    *)
(***************************************************************************)
MantBits == 53

LimbBits == 16

Base == 2 ^ LimbBits

RECURSIVE Strip(_)
Strip(a) ==
    IF a = <<>> THEN <<>>
    ELSE IF a[Len(a)] = 0 THEN Strip(SubSeq(a, 1, Len(a) - 1))
    ELSE a

\* a + b + c
RECURSIVE AddC(_, _, _)
AddC(a, b, c) ==
    IF a = <<>> /\ b = <<>> THEN (IF c = 0 THEN <<>> ELSE <<c>>)
    ELSE LET x == IF a = <<>> THEN 0 ELSE Head(a)
             y == IF b = <<>> THEN 0 ELSE Head(b)
             s == x + y + c
         IN  <<s % Base>> \o AddC(IF a = <<>> THEN <<>> ELSE Tail(a),
                                  IF b = <<>> THEN <<>> ELSE Tail(b),
                                  s \div Base)

\* a - b - c, for a >= b + c
RECURSIVE SubC(_, _, _)
SubC(a, b, c) ==
    IF a = <<>> THEN <<>>
    ELSE LET y == IF b = <<>> THEN 0 ELSE Head(b)
             d == Head(a) - y - c
         IN  <<IF d < 0 THEN d + Base ELSE d>>
                 \o SubC(Tail(a), IF b = <<>> THEN <<>> ELSE Tail(b),
                         IF d < 0 THEN 1 ELSE 0)

\* a < b, for stripped a and b
Less(a, b) ==
    \/ Len(a) < Len(b)
    \/ /\ Len(a) = Len(b)
       /\ \E i \in 1..Len(a) :
            /\ a[i] < b[i]
            /\ \A j \in (i + 1)..Len(a) : a[j] = b[j]

\* number of significant bits of a stripped a
BitLen(a) ==
    IF a = <<>> THEN 0
    ELSE LimbBits * (Len(a) - 1)
           + (CHOOSE w \in 1..LimbBits :
                 2 ^ (w - 1) <= a[Len(a)] /\ a[Len(a)] < 2 ^ w)

\* bit i of a, bit 0 being the least significant
Bit(a, i) ==
    IF i \div LimbBits >= Len(a) THEN 0
    ELSE (a[(i \div LimbBits) + 1] \div (2 ^ (i % LimbBits))) % 2

\* a * 2^r for r < LimbBits, with carry c
RECURSIVE ShlSmall(_, _, _)
ShlSmall(a, r, c) ==
    IF a = <<>> THEN (IF c = 0 THEN <<>> ELSE <<c>>)
    ELSE LET v == Head(a) * (2 ^ r) + c
         IN  <<v % Base>> \o ShlSmall(Tail(a), r, v \div Base)

\* a * 2^n
Shl(a, n) ==
    IF a = <<>> THEN <<>>
    ELSE [i \in 1..(n \div LimbBits) |-> 0] \o ShlSmall(a, n % LimbBits, 0)

\* a \div 2^n
Shr(a, n) ==
    LET q == n \div LimbBits
        r == n % LimbBits
        b == IF q >= Len(a) THEN <<>> ELSE SubSeq(a, q + 1, Len(a))
        hi(i) == IF i < Len(b) THEN b[i + 1] % (2 ^ r) ELSE 0
    IN  Strip([i \in 1..Len(b) |->
                 (b[i] \div (2 ^ r)) + hi(i) * (2 ^ (LimbBits - r))])

FZero == [sign |-> 0, man |-> <<>>, exp |-> 0]

\* Round the exact value (-1)^s * m * 2^e to binary64.
FRound(s, m, e) ==
    LET a == Strip(m)
        n == BitLen(a)
    IN  IF n = 0 THEN FZero
        ELSE IF n <= MantBits
        THEN [sign |-> s, man |-> Shl(a, MantBits - n),
              exp |-> e - (MantBits - n)]
        ELSE LET k      == n - MantBits
                 kept   == Shr(a, k)
                 guard  == Bit(a, k - 1)
                 sticky == \E i \in 0..(k - 2) : Bit(a, i) = 1
                 up     == guard = 1 /\ (sticky \/ Bit(kept, 0) = 1)
                 r      == IF up THEN AddC(kept, <<>>, 1) ELSE kept
             IN  IF BitLen(r) > MantBits
                 THEN [sign |-> s, man |-> Shr(r, 1), exp |-> e + k + 1]
                 ELSE [sign |-> s, man |-> r, exp |-> e + k]

\* x + y
FAdd(x, y) ==
    IF x.man = <<>> THEN y
    ELSE IF y.man = <<>> THEN x
    ELSE LET e == IF x.exp < y.exp THEN x.exp ELSE y.exp
             a == Shl(x.man, x.exp - e)
             b == Shl(y.man, y.exp - e)
         IN  IF x.sign = y.sign THEN FRound(x.sign, AddC(a, b, 0), e)
             ELSE IF a = b THEN FZero
             ELSE IF Less(b, a) THEN FRound(x.sign, SubC(a, b, 0), e)
             ELSE FRound(y.sign, SubC(b, a, 0), e)

FNeg(x) == IF x.man = <<>> THEN x ELSE [x EXCEPT !.sign = 1 - x.sign]

\* x - y
FSub(x, y) == FAdd(x, FNeg(y))

\* x / 2 (exact in the normal range)
FHalf(x) == IF x.man = <<>> THEN x ELSE [x EXCEPT !.exp = x.exp - 1]

\* x < y
FLess(x, y) ==
    LET MagLess(a, b) ==
            IF a.man = <<>> THEN b.man # <<>>
            ELSE IF b.man = <<>> THEN FALSE
            ELSE a.exp < b.exp \/ (a.exp = b.exp /\ Less(a.man, b.man))
    IN  IF x.sign = 0 /\ y.sign = 0 THEN MagLess(x, y)
        ELSE IF x.sign = 1 /\ y.sign = 1 THEN MagLess(y, x)
        ELSE IF x.sign = 1 THEN TRUE
        ELSE FALSE

FLeq(x, y) == x = y \/ FLess(x, y)

\* The number written by the hexadecimal digits hs, most significant first.
RECURSIVE HexLimbs(_)
HexLimbs(hs) ==
    LET n == Len(hs)
        Val(d) == IF Len(d) = 4
                  THEN 4096 * d[1] + 256 * d[2] + 16 * d[3] + d[4]
                  ELSE IF Len(d) = 3 THEN 256 * d[1] + 16 * d[2] + d[3]
                  ELSE IF Len(d) = 2 THEN 16 * d[1] + d[2]
                  ELSE d[1]
    IN  IF n = 0 THEN <<>>
        ELSE IF n <= 4 THEN <<Val(hs)>>
        ELSE <<Val(SubSeq(hs, n - 3, n))>> \o HexLimbs(SubSeq(hs, 1, n - 4))

\* The float written  [-]0xH.HHHHHHHHHHHHHp+P  by float.hex(): hs are its 14
\* hexadecimal digits.
Hex(s, hs, p) == FRound(s, HexLimbs(hs), p - 52)

(***************************************************************************)
(* datetime.date: comparison, the calendar, isoformat() and str().         *)
(***************************************************************************)
Date(y, m, d) == [year |-> y, month |-> m, day |-> d]

\* the comparison the other way round
DateGT_inverted(a, b) ==
    \/ a.year < b.year
    \/ a.year = b.year /\ a.month < b.month
    \/ a.year = b.year /\ a.month = b.month /\ a.day < b.day

\* a > b, as datetime.date compares (year, month, day)
DateGT(a, b) ==
    \/ a.year > b.year
    \/ a.year = b.year /\ a.month > b.month
    \/ a.year = b.year /\ a.month = b.month /\ a.day > b.day

IsLeap(y) == y % 4 = 0 /\ (y % 100 # 0 \/ y % 400 = 0)

DaysInMonth(y, m) ==
    IF m = 2 THEN (IF IsLeap(y) THEN 29 ELSE 28)
    ELSE IF m \in {4, 6, 9, 11} THEN 30
    ELSE 31

NextDay(d) ==
    IF d.day < DaysInMonth(d.year, d.month) THEN Date(d.year, d.month, d.day + 1)
    ELSE IF d.month < 12 THEN Date(d.year, d.month + 1, 1)
    ELSE Date(d.year + 1, 1, 1)

Digit(n) == <<"0", "1", "2", "3", "4", "5", "6", "7", "8", "9">>[n + 1]

\* "%d-%d-%d": the fields without zero padding
isoformat_nopad(d) ==
    LET Num(n) == IF n < 10 THEN Digit(n)
                  ELSE IF n < 100 THEN Digit(n \div 10) \o Digit(n % 10)
                  ELSE Digit(n \div 1000) \o Digit((n \div 100) % 10)
                         \o Digit((n \div 10) % 10) \o Digit(n % 10)
    IN  Num(d.year) \o "-" \o Num(d.month) \o "-" \o Num(d.day)

\* date.isoformat(): "%04d-%02d-%02d"
isoformat(d) ==
    Digit(d.year \div 1000) \o Digit((d.year \div 100) % 10)
        \o Digit((d.year \div 10) % 10) \o Digit(d.year % 10) \o "-"
        \o Digit(d.month \div 10) \o Digit(d.month % 10) \o "-"
        \o Digit(d.day \div 10) \o Digit(d.day % 10)

\* str(date) and format(date, ""), which an f-string uses, are isoformat()
DateStr(d) == isoformat(d)

(***************************************************************************)
(* Bounds of the model.                                                    *)
(***************************************************************************)
\* number of midnights the clock passes
MaxDay == 1

\* number of presses of the fetch button with a date that is not in the future
MaxFetches == 2

(***************************************************************************)
(* The inputs.                                                             *)
(***************************************************************************)
\* the calendar date of the clock when the process starts
StartDate == Date(2024, 12, 31)

RECURSIVE DayN(_)
DayN(n) == IF n = 0 THEN StartDate ELSE NextDay(DayN(n - 1))

\* the dates the date picker offers: it is not limited to today
DateInputs == {DayN(n) : n \in 0..(MaxDay + 1)}

\* what os.getenv() can return for a credential
EnvValues == {None, Str(""), Str("secret")}

\* 46.1512, the default latitude
LatDefault == Hex(0, <<1, 7, 1, 3, 5, 10, 8, 5, 8, 7, 9, 3, 13, 14>>, 5)

\* 14.9955, the default longitude
LonDefault == Hex(0, <<1, 13, 15, 13, 11, 2, 2, 13, 0, 14, 5, 6, 0, 4>>, 3)

F90 == Hex(0, <<1, 6, 8, 0, 0, 0, 0, 0, 0, 0, 0, 0, 0, 0>>, 6)

F180 == Hex(0, <<1, 6, 8, 0, 0, 0, 0, 0, 0, 0, 0, 0, 0, 0>>, 7)

\* -200.0
FM200 == Hex(1, <<1, 9, 0, 0, 0, 0, 0, 0, 0, 0, 0, 0, 0, 0>>, 7)

\* 2.0 ** 49, the largest magnitude at which x - 0.05 < x + 0.05
FTwo49 == Hex(0, <<1, 0, 0, 0, 0, 0, 0, 0, 0, 0, 0, 0, 0, 0>>, 49)

\* 2.0 ** 50
FTwo50 == Hex(0, <<1, 0, 0, 0, 0, 0, 0, 0, 0, 0, 0, 0, 0, 0>>, 50)

\* st.sidebar.number_input has no min_value and no max_value: any float
LatInputs == {LatDefault, FTwo50}

LonInputs == {LonDefault, FM200, FTwo49}

\* st.sidebar.slider("Zoom Level", 1, 15, 10)
ZoomMin == 1

ZoomMax == 15

ZoomDefault == 10

ZoomInputs == {ZoomMin, ZoomDefault, ZoomMax}

SatelliteOptions == <<"Sentinel-2", "Sentinel-3", "Landsat-8">>

\* what the request to the provider can raise, as str(e)
ProviderErrors == {"401 Unauthorized", "429 Too Many Requests", "Connection timed out"}

\* what BBox(), bbox_to_dimensions() and SentinelHubRequest() can raise
LocalErrors == {"Invalid bounding box"}

\* the payloads the provider can return as response[0]
Images == {Bytes("png")}

(***************************************************************************)
(* The state.                                                              *)
(***************************************************************************)
VARIABLES
    config,            \* SHConfig: instance_id, sh_client_id, sh_client_secret
    clock,             \* the calendar date datetime.today().date() returns
    satellite_option,  \* value of the selectbox
    lat,               \* value of the "Latitude" number_input
    lon,               \* value of the "Longitude" number_input
    zoom,              \* value of the slider
    date,              \* value of the date_input
    button,            \* TRUE in the pass that a press of the button starts
    pc,                \* position of the render pass in main()
    locals,            \* locals of main() bound in this pass
    call,              \* frame of get_sentinel_image(), <<>> outside it
    ui,                \* what the st.* calls of the pass have put on the page
    nPress,            \* presses of the button with a date not in the future
    nCalls             \* calls of request.get_data()

vars == <<config, clock, satellite_option, lat, lon, zoom, date, button, pc,
          locals, call, ui, nPress, nCalls>>

widgets == <<satellite_option, lat, lon, zoom, date>>

Elem(k, t) == [kind |-> k, text |-> t]

WidgetKinds == {"selectbox", "number_input", "slider", "date_input", "button"}

MissingCredentials == "Missing Sentinel Hub API credentials."

FutureDate == "Selected date cannot be in the future."

FetchFailed == "Failed to retrieve satellite image."

\* `and` in place of `or`: raises only when all three are missing
validate_all_missing(c) ==
    IF ~Truthy(c.instance_id) /\ ~Truthy(c.sh_client_id)
          /\ ~Truthy(c.sh_client_secret)
    THEN "ValueError"
    ELSE "ok"

(***************************************************************************)
(* validate_sentinelhub_credentials(config): "ValueError" when it raises,  *)
(* "ok" when it returns.                                                   *)
(***************************************************************************)
validate_sentinelhub_credentials(c) ==
    IF ~Truthy(c.instance_id) \/ ~Truthy(c.sh_client_id)
          \/ ~Truthy(c.sh_client_secret)
    THEN "ValueError"
    ELSE "ok"

\* the selection dropped: get_sentinel_image() called with its default
satellite_mapping_default(opt) == "SENTINEL2_L1C"

\* satellite_mapping.get(satellite_option, DataCollection.SENTINEL2_L1C)
satellite_mapping(opt) ==
    IF opt = "Sentinel-2" THEN "SENTINEL2_L1C"
    ELSE IF opt = "Sentinel-3" THEN "SENTINEL3_L1"
    ELSE IF opt = "Landsat-8" THEN "LANDSAT8_L1"
    ELSE "SENTINEL2_L1C"

\* 0.05
bbox_offset == Hex(0, <<1, 9, 9, 9, 9, 9, 9, 9, 9, 9, 9, 9, 9, 10>>, -5)

\* latitude and longitude in each other's place
bbox_coords_swapped(la, lo) ==
    <<FSub(la, bbox_offset), FSub(lo, bbox_offset),
      FAdd(la, bbox_offset), FAdd(lo, bbox_offset)>>

bbox_coords(la, lo) ==
    <<FSub(lo, bbox_offset), FSub(la, bbox_offset),
      FAdd(lo, bbox_offset), FAdd(la, bbox_offset)>>

initialize_folium_map(la, lo, z) ==
    [location |-> <<la, lo>>, zoom_start |-> z,
     marker |-> [location |-> <<la, lo>>, popup |-> "Area of Interest"]]

Init ==
    /\ config \in [instance_id : EnvValues, sh_client_id : EnvValues,
                   sh_client_secret : EnvValues]
    /\ clock = StartDate
    /\ satellite_option = SatelliteOptions[1]
    /\ lat = LatDefault
    /\ lon = LonDefault
    /\ zoom = ZoomDefault
    /\ date = clock
    /\ button = FALSE
    /\ pc = "start"
    /\ locals = <<>>
    /\ call = <<>>
    /\ ui = <<>>
    /\ nPress = 0
    /\ nCalls = 0

(***************************************************************************)
(* One render pass of main().                                              *)
(***************************************************************************)
\* lines 111-122: the credentials are checked; st.stop() ends the pass
Validate ==
    /\ pc = "start"
    /\ IF validate_sentinelhub_credentials(config) = "ValueError"
       THEN /\ ui' = <<Elem("error", MissingCredentials)>>
            /\ pc' = "halted"
       ELSE /\ ui' = <<Elem("title", "Real-Time Satellite Image Processing"),
                       Elem("header", "Configuration")>>
            /\ pc' = "inputs"
    /\ UNCHANGED <<config, clock, widgets, button, locals, call, nPress, nCalls>>

\* lines 124-162: the widgets are read, the map is drawn, the box is built
Inputs ==
    /\ pc = "inputs"
    /\ locals' = [selected_data_collection |-> satellite_mapping(satellite_option),
                  folium_map |-> initialize_folium_map(lat, lon, zoom),
                  bbox_coords |-> bbox_coords(lat, lon),
                  today |-> clock]
    /\ ui' = ui \o <<Elem("selectbox", "Choose Satellite Data"),
                     Elem("number_input", "Latitude"),
                     Elem("number_input", "Longitude"),
                     Elem("slider", "Zoom Level"),
                     Elem("map", "Area of Interest"),
                     Elem("date_input", "Select Date")>>
    /\ pc' = "button"
    /\ UNCHANGED <<config, clock, widgets, button, call, nPress, nCalls>>

\* the fetch outside the `if st.sidebar.button(...)`: it runs in every pass
ButtonIgnoresPress ==
    /\ pc = "button"
    /\ IF DateGT(date, locals.today)
       THEN /\ ui' = ui \o <<Elem("button", "Get Satellite Image"),
                             Elem("error", FutureDate)>>
            /\ pc' = "done"
            /\ UNCHANGED <<call, nPress>>
       ELSE /\ ui' = ui \o <<Elem("button", "Get Satellite Image"),
                             Elem("spinner", "Fetching satellite image...")>>
            /\ call' = [bbox_coords |-> locals.bbox_coords,
                        date |-> isoformat(date),
                        data_collection |-> locals.selected_data_collection,
                        request |-> None]
            /\ nPress' = nPress
            /\ pc' = "fetching"
    /\ UNCHANGED <<config, clock, widgets, button, locals, nCalls>>

\* lines 165-172: the button, the date check, the call of get_sentinel_image
Button ==
    /\ pc = "button"
    /\ IF ~button
       THEN /\ ui' = ui \o <<Elem("button", "Get Satellite Image")>>
            /\ pc' = "done"
            /\ UNCHANGED <<call, nPress>>
       ELSE IF DateGT(date, locals.today)
       THEN /\ ui' = ui \o <<Elem("button", "Get Satellite Image"),
                             Elem("error", FutureDate)>>
            /\ pc' = "done"
            /\ UNCHANGED <<call, nPress>>
       ELSE /\ ui' = ui \o <<Elem("button", "Get Satellite Image"),
                             Elem("spinner", "Fetching satellite image...")>>
            /\ call' = [bbox_coords |-> locals.bbox_coords,
                        date |-> isoformat(date),
                        data_collection |-> locals.selected_data_collection,
                        request |-> None]
            /\ nPress' = nPress + 1
            /\ pc' = "fetching"
    /\ UNCHANGED <<config, clock, widgets, button, locals, nCalls>>

\* no `except`: the exception leaves get_sentinel_image() and main()
FailurePropagates(e) ==
    /\ ui' = ui \o <<Elem("exception", e)>>
    /\ locals' = locals
    /\ pc' = "crashed"

\* the handler without its own st.error()
FailureGenericOnly(e) ==
    /\ ui' = ui \o <<Elem("error", FetchFailed)>>
    /\ locals' = [n \in DOMAIN locals \cup {"image_data"} |->
                     IF n = "image_data" THEN None ELSE locals[n]]
    /\ pc' = "done"

\* lines 85-88 and 173-177: the handler of get_sentinel_image returns None
\* and main() reports the failure
Failure(e) ==
    /\ ui' = ui \o <<Elem("error", "Error fetching image: " \o e),
                     Elem("error", FetchFailed)>>
    /\ locals' = [n \in DOMAIN locals \cup {"image_data"} |->
                     IF n = "image_data" THEN None ELSE locals[n]]
    /\ pc' = "done"

\* lines 56-81: the request is built and request.get_data() is called
BuildRequest ==
    /\ pc = "fetching"
    /\ call' = [call EXCEPT !.request =
                   [data_collection |-> call.data_collection,
                    time_interval |-> <<call.date, call.date>>,
                    response |-> "PNG",
                    bbox |-> call.bbox_coords,
                    resolution |-> 10]]
    /\ nCalls' = nCalls + 1
    /\ pc' = "calling"
    /\ UNCHANGED <<config, clock, widgets, button, locals, ui, nPress>>

\* lines 58-78 raise before the request is sent
BuildRaises ==
    /\ pc = "fetching"
    /\ \E e \in LocalErrors : Failure(e)
    /\ UNCHANGED <<config, clock, widgets, button, call, nPress, nCalls>>

\* lines 81-83 and 173-175: the provider returns the image
ProviderReturns ==
    /\ pc = "calling"
    /\ \E img \in Images :
          locals' = [n \in DOMAIN locals \cup {"image_data"} |->
                        IF n = "image_data" THEN img ELSE locals[n]]
    /\ ui' = ui \o <<Elem("success", "Satellite image fetched successfully!"),
                     Elem("image", "Satellite Image on " \o DateStr(date))>>
    /\ pc' = "done"
    /\ UNCHANGED <<config, clock, widgets, button, call, nPress, nCalls>>

\* the handler calls the provider again
ProviderRaisesRetry ==
    /\ pc = "calling"
    /\ call' = [call EXCEPT !.request = None]
    /\ pc' = "fetching"
    /\ UNCHANGED <<config, clock, widgets, button, locals, ui, nPress, nCalls>>

\* line 81 raises
ProviderRaises ==
    /\ pc = "calling"
    /\ \E e \in ProviderErrors : Failure(e)
    /\ UNCHANGED <<config, clock, widgets, button, call, nPress, nCalls>>

(***************************************************************************)
(* The user and the clock.  An interaction with a widget of the page       *)
(* starts the next render pass: the frames of the pass that ended are      *)
(* gone, the page stays as it is until the new pass redraws it.            *)
(***************************************************************************)
Rerun(b) ==
    /\ button' = b
    /\ pc' = "start"
    /\ locals' = <<>>
    /\ call' = <<>>
    /\ UNCHANGED <<config, clock, ui, nPress, nCalls>>

SelectSatellite ==
    /\ pc = "done"
    /\ \E i \in 1..Len(SatelliteOptions) :
          satellite_option' = SatelliteOptions[i]
    /\ Rerun(FALSE)
    /\ UNCHANGED <<lat, lon, zoom, date>>

SetLatitude ==
    /\ pc = "done"
    /\ lat' \in LatInputs
    /\ Rerun(FALSE)
    /\ UNCHANGED <<satellite_option, lon, zoom, date>>

SetLongitude ==
    /\ pc = "done"
    /\ lon' \in LonInputs
    /\ Rerun(FALSE)
    /\ UNCHANGED <<satellite_option, lat, zoom, date>>

SetZoom ==
    /\ pc = "done"
    /\ zoom' \in ZoomInputs
    /\ Rerun(FALSE)
    /\ UNCHANGED <<satellite_option, lat, lon, date>>

PickDate ==
    /\ pc = "done"
    /\ date' \in DateInputs
    /\ Rerun(FALSE)
    /\ UNCHANGED <<satellite_option, lat, lon, zoom>>

PressButton ==
    /\ pc = "done"
    /\ nPress < MaxFetches
    /\ Rerun(TRUE)
    /\ UNCHANGED widgets

\* "Rerun" of the Streamlit menu: the only interaction a halted page offers
MenuRerun ==
    /\ pc \in {"done", "halted"}
    /\ Rerun(FALSE)
    /\ UNCHANGED widgets

\* midnight
Tick ==
    /\ clock # DayN(MaxDay)
    /\ clock' = NextDay(clock)
    /\ UNCHANGED <<config, widgets, button, pc, locals, call, ui, nPress, nCalls>>

Next ==
    \/ Validate
    \/ Inputs
    \/ Button
    \/ BuildRequest
    \/ BuildRaises
    \/ ProviderReturns
    \/ ProviderRaises
    \/ SelectSatellite
    \/ SetLatitude
    \/ SetLongitude
    \/ SetZoom
    \/ PickDate
    \/ PressButton
    \/ MenuRerun
    \/ Tick

Spec == Init /\ [][Next]_vars

\* get_sentinel_image() is synchronous code around one blocking call: once
\* entered it builds the request or raises, and the provider call returns or
\* raises.
Fetch ==
    \/ BuildRequest
    \/ BuildRaises
    \/ ProviderReturns
    \/ ProviderRaises

LiveSpec == Spec /\ WF_vars(Fetch)

(***************************************************************************)
(* What the page shows, and the state of the orchestrator it stands for.   *)
(***************************************************************************)
Range(q) == {q[i] : i \in DOMAIN q}

Shown(k, t) == Elem(k, t) \in Range(ui)

Errors(q) == SelectSeq(q, LAMBDA x : x.kind = "error")

ImageShown == \E x \in Range(ui) : x.kind = "image"

\* States of the orchestrator: a page stays what it is until the next pass
\* has validated the credentials and redrawn it.
State ==
    IF pc = "halted" THEN "Halted"
    ELSE IF pc \in {"fetching", "calling"} THEN "Fetching"
    ELSE IF pc \in {"inputs", "button"} THEN "AwaitingInput"
    ELSE IF pc \notin {"start", "done"} THEN "Crashed"
    ELSE IF ui = <<>> THEN "Idle"
    ELSE IF Shown("error", MissingCredentials) THEN "Halted"
    ELSE IF ImageShown THEN "Success"
    ELSE IF Shown("error", FetchFailed) THEN "Failed"
    ELSE "AwaitingInput"

Complete ==
    /\ config.instance_id \notin {None, Str("")}
    /\ config.sh_client_id \notin {None, Str("")}
    /\ config.sh_client_secret \notin {None, Str("")}

ReturnedNone == "image_data" \in DOMAIN locals /\ locals.image_data = None

\* the locals of main() are those of the pass that is running or has ended
InPass == pc \in {"button", "fetching", "calling", "done"}

\* the number of days from StartDate to d
Ord(d) == CHOOSE n \in 0..(MaxDay + 1) : DayN(n) = d

(***************************************************************************)
(* C1: validation succeeds exactly when the three credentials are          *)
(* non-empty; otherwise the pass halts with the error on the page, no      *)
(* widget is evaluated, no provider call is made, and every later pass     *)
(* halts again.                                                            *)
(***************************************************************************)
C1_Gate ==
    /\ pc # "start" => (pc = "halted" <=> ~Complete)
    /\ Complete => State # "Halted"
    /\ ~Complete =>
          /\ pc \in {"start", "halted"}
          /\ nCalls = 0
          /\ nPress = 0
          /\ call = <<>>
          /\ locals = <<>>
          /\ \A x \in Range(ui) : x.kind \notin WidgetKinds
          /\ pc = "halted" => ui = <<Elem("error", MissingCredentials)>>

C1_HaltedIsTerminal ==
    [](C1_Gate) /\ [][State = "Halted" => State' = "Halted"]_vars

C1_Witness ==
    /\ pc = "halted"
    /\ config.instance_id = Str("secret")
    /\ config.sh_client_id = Str("secret")
    /\ config.sh_client_secret = Str("")

(***************************************************************************)
(* C2: a press of the button with a date strictly after today makes no     *)
(* provider call and shows an error; whenever get_sentinel_image() runs,   *)
(* the request date is not after today.                                    *)
(***************************************************************************)
C2_FutureDateBlocked ==
    /\ pc \in {"fetching", "calling"} =>
          /\ button
          /\ Ord(date) <= Ord(locals.today)
          /\ Ord(locals.today) <= Ord(clock)
          /\ call.date = isoformat(date)
    /\ (pc = "done" /\ button /\ Ord(date) > Ord(locals.today)) =>
          /\ call = <<>>
          /\ "image_data" \notin DOMAIN locals
          /\ Errors(ui) = <<Elem("error", FutureDate)>>
          /\ State = "AwaitingInput"

C2_Witness ==
    /\ pc = "done"
    /\ button
    /\ DateGT(date, locals.today)
    /\ Shown("error", FutureDate)

(***************************************************************************)
(* C3: when the provider call raises, get_sentinel_image() returns None,   *)
(* an error is shown, the page is in Failed, and the session stays         *)
(* interactive: the button can be pressed again.                           *)
(***************************************************************************)
C3_RaiseStep ==
    (pc = "calling" /\ pc' # "calling" /\ ~ImageShown') =>
        /\ pc' = "done"
        /\ ReturnedNone'
        /\ State' = "Failed"
        /\ Len(Errors(ui')) > 0
        /\ nCalls' = nCalls

C3_Interactive ==
    (pc = "done" /\ ReturnedNone) =>
        /\ State = "Failed"
        /\ nPress < MaxFetches => ENABLED PressButton
        /\ ENABLED PickDate

C3_FailureIsRecovered == [](C3_Interactive) /\ [][C3_RaiseStep]_vars

C3_Witness ==
    /\ pc = "done"
    /\ ReturnedNone
    /\ Shown("error", "Error fetching image: 401 Unauthorized")
    /\ nCalls = 1

(***************************************************************************)
(* C4: the provider is called at most once per press of the button with a  *)
(* date that is not in the future, and a call is made only by a pass that  *)
(* a press started and that has not called yet: nothing is retried.        *)
(***************************************************************************)
C4_CallStep ==
    nCalls' # nCalls =>
        /\ nCalls' = nCalls + 1
        /\ button
        /\ pc = "fetching"
        /\ call.request = None

C4_AtMostOnce == [](nCalls <= nPress) /\ [][C4_CallStep]_vars

C4_Witness ==
    /\ pc = "done"
    /\ ReturnedNone
    /\ nCalls = 2
    /\ nPress = 2

(***************************************************************************)
(* Decimal numbers of the bounding-box example, as the floats Python reads *)
(* them as.                                                                *)
(***************************************************************************)
\* 14.9455
F14_9455 == Hex(0, <<1, 13, 14, 4, 1, 8, 9, 3, 7, 4, 11, 12, 6, 10>>, 3)

\* 46.1012
F46_1012 == Hex(0, <<1, 7, 0, 12, 15, 4, 1, 15, 2, 1, 2, 13, 7, 7>>, 5)

\* 46.101200000000006, the float after 46.1012
F46_1012_up == Hex(0, <<1, 7, 0, 12, 15, 4, 1, 15, 2, 1, 2, 13, 7, 8>>, 5)

\* 15.0455
F15_0455 == Hex(0, <<1, 14, 1, 7, 4, 11, 12, 6, 10, 7, 14, 15, 9, 14>>, 3)

\* 46.2012
F46_2012 == Hex(0, <<1, 7, 1, 9, 12, 0, 14, 11, 14, 13, 15, 10, 4, 4>>, 5)

FAbs(x) == [x EXCEPT !.sign = 0]

(***************************************************************************)
(* C5 as stated: for every (lat, lon) the box has min < max on both axes,  *)
(* is centred exactly at (lat, lon) with half-width and half-height equal  *)
(* to the offset, and for lat=46.1512, lon=14.9955 it is                   *)
(* [14.9455, 46.1012, 15.0455, 46.2012].                                   *)
(***************************************************************************)
C5_ExactBox ==
    InPass =>
        LET b == locals.bbox_coords
        IN  /\ FLess(b[1], b[3])
            /\ FLess(b[2], b[4])
            /\ FHalf(FAdd(b[1], b[3])) = lon
            /\ FHalf(FAdd(b[2], b[4])) = lat
            /\ FHalf(FSub(b[3], b[1])) = bbox_offset
            /\ FHalf(FSub(b[4], b[2])) = bbox_offset
            /\ (lat = LatDefault /\ lon = LonDefault) =>
                   b = <<F14_9455, F46_1012, F15_0455, F46_2012>>

(***************************************************************************)
(* C5 as amended: the box is computed in binary64: the centre lies between *)
(* the two bounds on both axes, min < max holds on an axis whenever the    *)
(* coordinate is at most 2^49 in magnitude, and for lat=46.1512,           *)
(* lon=14.9955 the box is [14.9455, 46.101200000000006, 15.0455, 46.2012]. *)
(***************************************************************************)
C5_RoundedBox ==
    InPass =>
        LET b == locals.bbox_coords
        IN  /\ FLeq(b[1], lon) /\ FLeq(lon, b[3])
            /\ FLeq(b[2], lat) /\ FLeq(lat, b[4])
            /\ FLeq(FAbs(lon), FTwo49) => FLess(b[1], b[3])
            /\ FLeq(FAbs(lat), FTwo49) => FLess(b[2], b[4])
            /\ (lat = LatDefault /\ lon = LonDefault) =>
                   b = <<F14_9455, F46_1012_up, F15_0455, F46_2012>>

C5_Witness ==
    /\ pc = "button"
    /\ lat = FTwo50
    /\ lon = LonDefault
    /\ locals.bbox_coords[2] = locals.bbox_coords[4]
    /\ FLess(locals.bbox_coords[1], locals.bbox_coords[3])

(***************************************************************************)
(* C6: in every reachable state latitude is in [-90, 90], longitude in     *)
(* [-180, 180] and zoom in 1..15, and every bounding box passed to         *)
(* get_sentinel_image() is derived from such a latitude and longitude.     *)
(***************************************************************************)
C6_AreaInRange ==
    /\ FLeq(FNeg(F90), lat) /\ FLeq(lat, F90)
    /\ FLeq(FNeg(F180), lon) /\ FLeq(lon, F180)
    /\ zoom \in ZoomMin..ZoomMax
    /\ pc \in {"fetching", "calling"} =>
          call.bbox_coords = bbox_coords(lat, lon)

(***************************************************************************)
(* C7 as stated: a failed fetch displays exactly one error message, whose  *)
(* text does not depend on the exception raised.                           *)
(***************************************************************************)
C7_OneGenericMessage ==
    (pc = "done" /\ ReturnedNone) => Errors(ui) = <<Elem("error", FetchFailed)>>

(***************************************************************************)
(* C7 as amended: a failed fetch displays two error messages: first        *)
(* "Error fetching image: " followed by the text of the exception, then    *)
(* the generic "Failed to retrieve satellite image.".                      *)
(***************************************************************************)
C7_TwoMessages ==
    (pc = "done" /\ ReturnedNone) =>
        \E e \in ProviderErrors \cup LocalErrors :
            Errors(ui) = <<Elem("error", "Error fetching image: " \o e),
                           Elem("error", FetchFailed)>>

C7_Witness ==
    /\ pc = "done"
    /\ ReturnedNone
    /\ Errors(ui)[1].text = "Error fetching image: 429 Too Many Requests"
    /\ Errors(ui)[2].text = FetchFailed

\* the caption of the image on the page
Caption == (CHOOSE x \in Range(ui) : x.kind = "image").text

(***************************************************************************)
(* C8 as stated: when the provider returns bytes the page is in Success    *)
(* and the caption equals the selected date string, the one sent as both   *)
(* ends of the time interval.                                              *)
(***************************************************************************)
C8_CaptionIsDate ==
    (pc = "done" /\ "image_data" \in DOMAIN locals /\ locals.image_data \in Images) =>
        /\ State = "Success"
        /\ call.request.time_interval = <<isoformat(date), isoformat(date)>>
        /\ Caption = call.request.time_interval[1]

(***************************************************************************)
(* C8 as amended: when the provider returns bytes the page is in Success   *)
(* and the caption is "Satellite Image on " followed by the selected date  *)
(* in ISO form, the string sent as both ends of the time interval.         *)
(***************************************************************************)
C8_CaptionHasDate ==
    (pc = "done" /\ "image_data" \in DOMAIN locals /\ locals.image_data \in Images) =>
        /\ State = "Success"
        /\ call.request.time_interval[1] = call.request.time_interval[2]
        /\ Caption = "Satellite Image on " \o call.request.time_interval[1]
        /\ date = Date(2024, 12, 31) => Caption = "Satellite Image on 2024-12-31"
        /\ date = Date(2025, 1, 1) => Caption = "Satellite Image on 2025-01-01"
        /\ date = Date(2025, 1, 2) => Caption = "Satellite Image on 2025-01-02"

C8_Witness ==
    /\ pc = "done"
    /\ ImageShown
    /\ locals.image_data \in Images
    /\ date = Date(2025, 1, 1)

(***************************************************************************)
(* C9 as stated: the data collection passed to the provider is             *)
(* SENTINEL2_L1C for every fetch, whatever the selector says.              *)
(***************************************************************************)
C9_AlwaysSentinel2 ==
    pc = "calling" => call.request.data_collection = "SENTINEL2_L1C"

(***************************************************************************)
(* C9 as amended: the data collection passed to the provider is the one    *)
(* the selector is mapped to: SENTINEL2_L1C for "Sentinel-2", SENTINEL3_L1 *)
(* for "Sentinel-3", LANDSAT8_L1 for "Landsat-8".                          *)
(***************************************************************************)
C9_SelectedCollection ==
    pc = "calling" =>
        /\ satellite_option = "Sentinel-2" =>
              call.request.data_collection = "SENTINEL2_L1C"
        /\ satellite_option = "Sentinel-3" =>
              call.request.data_collection = "SENTINEL3_L1"
        /\ satellite_option = "Landsat-8" =>
              call.request.data_collection = "LANDSAT8_L1"

C9_Witness ==
    /\ pc = "calling"
    /\ satellite_option = "Sentinel-3"
    /\ call.request.data_collection = "SENTINEL3_L1"

(***************************************************************************)
(* C10: Idle -> AwaitingInput -> Fetching -> {Success, Failed} ->          *)
(* AwaitingInput.  Fetching is entered only from AwaitingInput, by a press *)
(* of the button with valid credentials and a date that is not in the      *)
(* future; Fetching is left only to Success or Failed and is always left;  *)
(* Success and Failed are left only to AwaitingInput, never to Halted.     *)
(***************************************************************************)
C10_Step ==
    /\ (State # "Fetching" /\ State' = "Fetching") =>
          /\ State = "AwaitingInput"
          /\ button
          /\ Complete
          /\ Ord(date) <= Ord(clock)
    /\ (State = "Fetching" /\ State' # "Fetching") =>
          State' \in {"Success", "Failed"}
    /\ (State \in {"Success", "Failed"} /\ State' # State) =>
          State' = "AwaitingInput"
    /\ (State = "Idle" /\ State' # "Idle") =>
          State' \in {"AwaitingInput", "Halted"}
    /\ (State = "AwaitingInput" /\ State' # State) => State' = "Fetching"

C10_Lifecycle ==
    /\ [][C10_Step]_vars
    /\ [](State \in {"Idle", "AwaitingInput", "Fetching", "Success",
                     "Failed", "Halted"})
    /\ [](ImageShown => ~Shown("error", FetchFailed))
    /\ (State = "Fetching") ~> (State \in {"Success", "Failed"})

C10_Witness ==
    /\ pc = "start"
    /\ State = "Failed"
    /\ button
    /\ nCalls = 1

====
